---- MODULE Spec2Model ----
(***************************************************************************)
(* A model of scripts/fetch_x_trends.py (the Trend Fetcher), of            *)
(* scripts/publish_wechat_article.py (the Article Publisher) and of        *)
(* scripts/upload_wechat_material.py (the Material Uploader).              *)
(*                                                                         *)
(* One run of a script's main() is a sequential process: pc is the         *)
(* position in main(), the other variables are main()'s locals, the        *)
(* printed JSON object and the exit code.  Files, the environment and the  *)
(* network are inputs: they are drawn from small sets at the step that     *)
(* reads them.                                                             *)
(*                                                                         *)
(* Text values (str) are sequences of tokens; a token is one character or  *)
(* one indivisible word.  "" and None are both the empty sequence where    *)
(* the code only tests truthiness.  Timestamps are whole hours.            *)
(***************************************************************************)
EXTENDS Integers, Sequences, FiniteSets, TLC

VARIABLES
    script,            \* the script that runs
    draft_only,        \* publisher: args.draft_only
    draft,             \* publisher: the response of draft/add
    publish,           \* publisher: the response of freepublish/submit
    result,            \* uploader: the response of add_material
    mode,              \* args.mode
    token,             \* os.environ.get("X_BEARER_TOKEN"); in the WeChat
                       \* scripts the access token main() obtained
    limit,             \* args.limit
    since_hours,       \* args.since_hours
    pc,                \* the position in main()
    pipeline,          \* the branch of main() that was entered
    listed,            \* the list loaded from the branch's input file
    query,             \* keywords mode: the query built from the keywords
    sources,           \* normalized handles / feeds the loop iterates over
    idx,               \* the loop's position in sources
    items,             \* main()'s items
    errors,            \* main()'s errors
    used_labels,       \* feeds mode: used_labels
    exclude_keywords,  \* the loaded exclude keywords
    net,               \* every network request made, with its outcome
    gathered,          \* items as they were when the filters started
    output,            \* the JSON object printed
    exit_code          \* <<>> while running, then <<code>>

vars == <<script, draft_only, draft, publish, result, mode, token, limit,
          since_hours, pc, pipeline, listed, query, sources, idx, items,
          errors, used_labels, exclude_keywords, net, gathered, output,
          exit_code>>

\* the locals of the WeChat scripts
wechat == <<script, draft_only, draft, publish, result>>

-----------------------------------------------------------------------------
(* Bounds of the model.                                                    *)

\* longest account / feed list read from a file
MaxSources == 2
\* largest --limit tried (the smallest is -1)
MaxLimit == 2
\* most tweets in one X API payload
MaxTweets == 2
\* longest item list handed to the filters in SpecFilters
MaxLen == 3
\* the hour datetime.now(timezone.utc) returns
Now == 100

Max(a, b) == IF a >= b THEN a ELSE b
Min(a, b) == IF a <= b THEN a ELSE b

-----------------------------------------------------------------------------
(* str helpers                                                             *)

\* str.lower() of one token: every upper-case letter and every word with an
\* upper-case letter that occurs in the model; any other token has none
LowerTok(c) ==
    CASE c = "A" -> "a"
      [] c = "B" -> "b"
      [] c = "C" -> "c"
      [] c = "D" -> "d"
      [] c = "E" -> "e"
      [] c = "F" -> "f"
      [] c = "G" -> "g"
      [] c = "H" -> "h"
      [] c = "I" -> "i"
      [] c = "J" -> "j"
      [] c = "K" -> "k"
      [] c = "L" -> "l"
      [] c = "M" -> "m"
      [] c = "N" -> "n"
      [] c = "O" -> "o"
      [] c = "P" -> "p"
      [] c = "Q" -> "q"
      [] c = "R" -> "r"
      [] c = "S" -> "s"
      [] c = "T" -> "t"
      [] c = "U" -> "u"
      [] c = "V" -> "v"
      [] c = "W" -> "w"
      [] c = "X" -> "x"
      [] c = "Y" -> "y"
      [] c = "Z" -> "z"
      [] c = "Karpathy" -> "karpathy"
      [] c = "OpenAI" -> "openai"
      [] c = "ArXiv" -> "arxiv"
      [] c = "Alice" -> "alice"
      [] c = "AT" -> "at"
      [] c = "M1" -> "m1"
      [] c = "M2" -> "m2"
      [] c = "M9" -> "m9"
      [] OTHER -> c

\* s.lower()
Lower(s) == [i \in 1..Len(s) |-> LowerTok(s[i])]

\* k in s  (substring test)
Contains(k, s) ==
    \E i \in 0..(Len(s) - Len(k)) : SubSeq(s, i + 1, i + Len(k)) = k

RECURSIVE LStrip(_, _)
\* s.lstrip(chars)
LStrip(s, chars) ==
    IF s # <<>> /\ Head(s) \in chars THEN LStrip(Tail(s), chars) ELSE s

RECURSIVE RStrip(_, _)
\* s.rstrip(chars)
RStrip(s, chars) ==
    IF s # <<>> /\ s[Len(s)] \in chars
    THEN RStrip(SubSeq(s, 1, Len(s) - 1), chars) ELSE s

\* s.strip()
Strip(s) == RStrip(LStrip(s, {" "}), {" "})

\* s.replace(c, "")
Remove(s, c) == SelectSeq(s, LAMBDA x : x # c)

\* [f(x) for x in s]
RECURSIVE MapSeq(_, _)
MapSeq(F(_), s) ==
    IF s = <<>> THEN <<>> ELSE <<F(Head(s))>> \o MapSeq(F, Tail(s))

\* index of the first occurrence of c in s, 0 when absent
RECURSIVE IndexOf(_, _, _)
IndexOf(s, c, i) ==
    IF i > Len(s) THEN 0 ELSE IF s[i] = c THEN i ELSE IndexOf(s, c, i + 1)

\* s[:n] for n >= 0
Take(s, n) == SubSeq(s, 1, Min(n, Len(s)))

\* all sequences over S of length at most n
SeqUpTo(S, n) == UNION {[1..k -> S] : k \in 0..n}

-----------------------------------------------------------------------------
(* Input files: a file is missing, or a sequence of lines.                 *)

MissingFile == [exists |-> FALSE, lines |-> <<>>]
File(ls) == [exists |-> TRUE, lines |-> ls]

\* _load_keywords / _load_accounts: stripped lines, blank and # lines dropped,
\* a missing file is the empty list
_load_keywords(f) ==
    IF ~f.exists THEN <<>>
    ELSE SelectSeq(MapSeq(Strip, f.lines),
                   LAMBDA l : l # <<>> /\ Head(l) # "#")

_load_accounts(f) == _load_keywords(f)

\* _load_exclude_keywords
_load_exclude_keywords(f) == MapSeq(Lower, _load_keywords(f))

\* one feed line: "label|url" or a bare url
FeedOfLine(raw) ==
    LET p == IndexOf(raw, "|", 1) IN
    IF p > 0
    THEN [label |-> Strip(SubSeq(raw, 1, p - 1)),
          url   |-> Strip(SubSeq(raw, p + 1, Len(raw)))]
    ELSE [label |-> <<>>, url |-> raw]

\* _load_feeds
_load_feeds(f) == MapSeq(FeedOfLine, _load_keywords(f))

\* _normalize_account
_normalize_account(raw) == Remove(LStrip(Strip(raw), {"@"}), " ")

\* _quote_keyword: the keyword without its quotes, "" when nothing is left
_quote_keyword(keyword) == Strip(Remove(keyword, "\""))

\* _build_query: the quoted keywords of the OR clause; <<>> is the query ""
_build_query(keywords) ==
    SelectSeq(MapSeq(_quote_keyword,
                     SelectSeq(keywords, LAMBDA k : Strip(k) # <<>>)),
              LAMBDA q : q # <<>>)

-----------------------------------------------------------------------------
(* Dates.  A date string is abstracted to its format, the local hour it    *)
(* names and its UTC offset (<<>> when it has none).  A normalised         *)
(* created_at is None (<<>>) or <<h>>, the ISO-8601 UTC string of hour h.  *)

None == <<>>

EmptyDate == [fmt |-> "empty", local |-> 0, off |-> <<>>]
GarbageDate == [fmt |-> "garbage", local |-> 0, off |-> <<>>]
Rfc2822(h, off) == [fmt |-> "rfc2822", local |-> h, off |-> off]
Iso(h, off) == [fmt |-> "iso", local |-> h, off |-> off]

\* dt.replace(tzinfo=utc) when naive, then dt.astimezone(utc).isoformat()
ToUtcIso(value) ==
    <<value.local - (IF value.off = <<>> THEN 0 ELSE value.off[1])>>

\* _parse_date: RFC-2822 first, then ISO-8601, else None
_parse_date(value) ==
    IF value.fmt = "empty" THEN None
    ELSE IF value.fmt = "rfc2822" THEN ToUtcIso(value)
    ELSE IF value.fmt = "iso" THEN ToUtcIso(value)
    ELSE None

\* metrics = {}
EmptyMetrics == [n \in {} |-> 0]

\* the item _parse_rss_items / _parse_atom_items builds from one entry
FeedItem(entry, source_label) ==
    [id |-> IF entry.link # <<>> THEN entry.link ELSE entry.title,
     text |-> entry.title,
     author |-> source_label,
     username |-> None,
     url |-> entry.link,
     created_at |-> _parse_date(entry.pubDate),
     metrics |-> EmptyMetrics,
     engagement_score |-> 0,
     source |-> source_label]

\* _parse_rss_items / _parse_feed on a well-formed body: the entries in
\* document order
_parse_feed(body, source_label) ==
    [i \in 1..Len(body) |-> FeedItem(body[i], source_label)]

-----------------------------------------------------------------------------
(* The filters                                                             *)

\* a variant of _filter_since that compares with > where the code has >=
_filter_since_Strict(its, hours) ==
    SelectSeq(its, LAMBDA item :
        /\ item.created_at # None
        /\ item.created_at[1] > Now - hours)

\* _filter_since: cutoff = now - since_hours; keeps created_dt >= cutoff
_filter_since(its, hours) ==
    SelectSeq(its, LAMBDA item :
        /\ item.created_at # None
        /\ item.created_at[1] >= Now - hours)

\* the key of _dedupe: url or id or text
DedupeKey(item) ==
    IF item.url # <<>> THEN item.url
    ELSE IF item.id # <<>> THEN item.id
    ELSE item.text

RECURSIVE DedupeLoop_KeepsKeyless(_, _, _)
\* a variant of the loop of _dedupe without its "not key" test
DedupeLoop_KeepsKeyless(its, seen, deduped) ==
    IF its = <<>> THEN deduped
    ELSE LET key == DedupeKey(Head(its)) IN
         IF key \in seen
         THEN DedupeLoop_KeepsKeyless(Tail(its), seen, deduped)
         ELSE DedupeLoop_KeepsKeyless(Tail(its), seen \cup {key},
                                      Append(deduped, Head(its)))

RECURSIVE DedupeLoop(_, _, _)
\* the loop of _dedupe, with its seen set and its deduped list
DedupeLoop(its, seen, deduped) ==
    IF its = <<>> THEN deduped
    ELSE LET key == DedupeKey(Head(its)) IN
         IF key = <<>> \/ key \in seen
         THEN DedupeLoop(Tail(its), seen, deduped)
         ELSE DedupeLoop(Tail(its), seen \cup {key},
                         Append(deduped, Head(its)))

\* _dedupe
_dedupe(its) == DedupeLoop(its, {}, <<>>)

\* _filter_excluded
_filter_excluded(its, excl) ==
    IF excl = <<>> THEN its
    ELSE SelectSeq(its, LAMBDA item :
             ~ \E n \in 1..Len(excl) : Contains(excl[n], Lower(item.text)))

OfficialKeywords ==
    {<<"openai">>, <<"anthropic">>, <<"deepmind">>, <<"google">>,
     <<"microsoft">>, <<"cohere">>, <<"hugging", " ", "face">>}

\* a variant of _source_weight that tests "arxiv" ahead of the other keywords
_source_weight_ArxivFirst(item) ==
    LET source == Lower(IF item.source # <<>> THEN item.source
                        ELSE item.author) IN
    IF Contains(<<"arxiv">>, source) THEN 0
    ELSE IF Contains(<<"karpathy">>, source) THEN 3
    ELSE IF \E key \in OfficialKeywords : Contains(key, source) THEN 2
    ELSE 1

\* _source_weight
_source_weight(item) ==
    LET source == Lower(IF item.source # <<>> THEN item.source
                        ELSE item.author) IN
    IF Contains(<<"karpathy">>, source) THEN 3
    ELSE IF \E key \in OfficialKeywords : Contains(key, source) THEN 2
    ELSE IF Contains(<<"arxiv">>, source) THEN 0
    ELSE 1

-----------------------------------------------------------------------------
(* list.sort(key=..., reverse=True): descending and stable.                *)

\* created_at or "": "" sorts below every timestamp
CreatedKey(item) ==
    IF item.created_at = None THEN 0 - 1 ELSE item.created_at[1]

\* a variant of the sort key of _build_items with the timestamp ahead of the
\* score
KeywordsKeyGt_TimeFirst(a, b) ==
    \/ CreatedKey(a) > CreatedKey(b)
    \/ /\ CreatedKey(a) = CreatedKey(b)
       /\ a.engagement_score > b.engagement_score

\* the sort key of _build_items: (engagement_score, created_at or "")
KeywordsKeyGt(a, b) ==
    \/ a.engagement_score > b.engagement_score
    \/ /\ a.engagement_score = b.engagement_score
       /\ CreatedKey(a) > CreatedKey(b)

\* the sort key of accounts mode: created_at or ""
AccountsKeyGt(a, b) == CreatedKey(a) > CreatedKey(b)

\* the sort key of feeds mode: (_source_weight, created_at or "")
FeedsKeyGt(a, b) ==
    \/ _source_weight(a) > _source_weight(b)
    \/ /\ _source_weight(a) = _source_weight(b)
       /\ CreatedKey(a) > CreatedKey(b)

RECURSIVE InsertDesc(_, _, _)
InsertDesc(Gt(_, _), x, s) ==
    IF s = <<>> THEN <<x>>
    ELSE IF Gt(x, Head(s)) THEN <<x>> \o s
    ELSE <<Head(s)>> \o InsertDesc(Gt, x, Tail(s))

RECURSIVE SortLoop(_, _, _)
SortLoop(Gt(_, _), s, acc) ==
    IF s = <<>> THEN acc
    ELSE SortLoop(Gt, Tail(s), InsertDesc(Gt, Head(s), acc))

SortKeywords(s) == SortLoop(KeywordsKeyGt, s, <<>>)
SortAccounts(s) == SortLoop(AccountsKeyGt, s, <<>>)
SortFeeds(s) == SortLoop(FeedsKeyGt, s, <<>>)

-----------------------------------------------------------------------------
(* Keywords mode: the X API payload and _build_items                       *)

\* metrics.get(name, 0)
MetricGet(metrics, name) ==
    IF name \in DOMAIN metrics THEN metrics[name] ELSE 0

\* the engagement sum of _build_items
Engagement(metrics) ==
    MetricGet(metrics, "like_count") + MetricGet(metrics, "retweet_count")
    + MetricGet(metrics, "reply_count") + MetricGet(metrics, "quote_count")

\* users.get(author_id, {}).get("username")
UsernameOf(users, author_id) ==
    IF \E u \in users : u.id = author_id
    THEN (CHOOSE u \in users : u.id = author_id).username ELSE None

\* user.get("name") or username or "unknown"
AuthorOf(users, author_id) ==
    LET name == IF \E u \in users : u.id = author_id
                THEN (CHOOSE u \in users : u.id = author_id).name ELSE None
    IN IF name # <<>> THEN name
       ELSE IF UsernameOf(users, author_id) # <<>>
            THEN UsernameOf(users, author_id)
       ELSE <<"unknown">>

\* the status url of a tweet
TweetUrl(username, id) ==
    IF username # <<>>
    THEN <<"https://x.com/">> \o username \o <<"/status/">> \o id
    ELSE <<"https://x.com/i/web/status/">> \o id

TweetItem(users, tweet) ==
    [id |-> tweet.id,
     text |-> tweet.text,
     author |-> AuthorOf(users, tweet.author_id),
     username |-> UsernameOf(users, tweet.author_id),
     url |-> TweetUrl(UsernameOf(users, tweet.author_id), tweet.id),
     created_at |-> tweet.created_at,
     metrics |-> tweet.metrics,
     engagement_score |-> Engagement(tweet.metrics),
     source |-> None]

\* _build_items: one item per tweet, then the sort
_build_items(payload) ==
    SortKeywords([i \in 1..Len(payload.data) |->
                     TweetItem(payload.users, payload.data[i])])

-----------------------------------------------------------------------------
(* The inputs of a run                                                     *)

Modes == {"auto", "keywords", "accounts", "feeds"}

\* X_BEARER_TOKEN: unset (None; the empty string is as falsy) or set
Tokens == {None, <<"tok">>}

Limits == (0 - 1)..MaxLimit

SinceHours == {1, 24}

KeywordFiles ==
    {MissingFile,
     File(<< <<"#", "a">>, <<" ">> >>),
     File(<< <<"\"">> >>),
     File(<< <<"a">>, <<" ", "\"", "b", "\"">> >>)}

AccountLines == {<<"@", "a">>, <<"b", " ", "c">>, <<"@">>}

AccountFiles ==
    {MissingFile} \cup {File(ls) : ls \in SeqUpTo(AccountLines, MaxSources)}

\* feed lines: a label of each weight, a bare url, a label that holds two of
\* the keywords, a line without url
FeedLines ==
    {<<"Karpathy", "|", "k">>, <<"u">>, <<"X", "|">>,
     <<"OpenAI", " ", "ArXiv", "|", "o">>, <<"ArXiv", "|", "r">>}

FeedFiles ==
    {MissingFile} \cup {File(ls) : ls \in SeqUpTo(FeedLines, MaxSources)}

\* --max-feeds: 0 is no limit
MaxFeedsArgs == {0, 1}

\* no file; a keyword in upper case; a keyword in lower case that a title in
\* upper case contains
ExcludeFiles == {MissingFile, File(<< <<"A", "D">> >>), File(<< <<"c">> >>)}

\* feed entries: a title, a link and a date string
E_day == [title |-> <<"A", "d">>, link |-> <<"u1">>,
          pubDate |-> Iso(Now - 23, <<0>>)]
E_hour == [title |-> <<"C">>, link |-> <<"u1">>,
           pubDate |-> Rfc2822(Now + 1, <<2>>)]
E_nolink == [title |-> <<"T">>, link |-> <<>>,
             pubDate |-> Iso(Now - 23, <<>>)]
E_nokey == [title |-> <<>>, link |-> <<>>,
            pubDate |-> Iso(Now - 2, <<0>>)]

Entries == {E_day, E_hour, E_nolink, E_nokey}

\* what one source returns: an exception out of the fetch or the parse, or
\* the entries of its feed document
Bodies == {<<>>} \cup {<<e>> : e \in Entries}
Raised == [ok |-> FALSE, body |-> <<>>]
Fetched(body) == [ok |-> TRUE, body |-> body]
FetchOutcomes == {Raised} \cup {Fetched(b) : b \in Bodies}

\* the X API: users and tweets of a payload
Users == {[id |-> "7", username |-> <<"alice">>, name |-> <<"Alice">>]}

T_top == [id |-> <<"1">>, text |-> <<"x">>, author_id |-> "7",
          created_at |-> <<Now - 5>>,
          metrics |-> [like_count |-> 5, retweet_count |-> 5]]
T_low == [id |-> <<"2">>, text |-> <<"y">>, author_id |-> "8",
          created_at |-> <<Now - 1>>,
          metrics |-> [like_count |-> 5]]
T_tie == [id |-> <<"3">>, text |-> <<"z">>, author_id |-> "7",
          created_at |-> <<Now - 2>>,
          metrics |-> [reply_count |-> 4, quote_count |-> 6]]
T_bare == [id |-> <<"4">>, text |-> <<"w">>, author_id |-> "8",
           created_at |-> None, metrics |-> EmptyMetrics]

Tweets == {T_top, T_low, T_tie, T_bare}

\* what _fetch_recent does: raise, or return a payload
ApiRaises == {"HTTPError", "URLError", "TimeoutError", "ValueError"}
ApiOutcomes ==
    {[kind |-> k, users |-> {}, data |-> <<>>] : k \in ApiRaises}
    \cup {[kind |-> "errors", users |-> {}, data |-> <<>>]}
    \cup {[kind |-> "payload", users |-> Users, data |-> d] :
             d \in SeqUpTo(Tweets, MaxTweets)}

-----------------------------------------------------------------------------
(* What main() prints and returns                                          *)

\* exit codes of main()
ExitOk == 0
ExitInputEmpty == 2
ExitHttpError == 3
ExitNetworkError == 3
ExitApiErrors == 3
\* an exception nothing catches: a traceback and exit code 1
ExitUncaught == 1

NoOutput ==
    [keys |-> {}, error |-> "", mode |-> "", fetched |-> 0,
     items |-> <<>>, errors |-> <<>>]

\* _json_out({"error": msg}) or _json_out({"error": msg, "details": ...})
ErrorOutput(msg, more) ==
    [keys |-> {"error"} \cup more, error |-> msg, mode |-> "",
     fetched |-> 0, items |-> <<>>, errors |-> <<>>]

\* a variant of the result object that tests the full list, not the limited
\* one, before it adds the notice
ResultOutput_NoticeOnFull(m, keys, its, lim, errs) ==
    LET limited == Take(its, Max(lim, 0)) IN
    [keys |-> {"mode", "limit", "fetched", "items"} \cup keys
              \cup (IF errs # <<>> THEN {"errors"} ELSE {})
              \cup (IF its = <<>> THEN {"notice"} ELSE {}),
     error |-> "", mode |-> m, fetched |-> Len(its), items |-> limited,
     errors |-> errs]

\* the result object of a branch: items[:max(limit, 0)], fetched, and the
\* notice when the limited list is empty
ResultOutput(m, keys, its, lim, errs) ==
    LET limited == Take(its, Max(lim, 0)) IN
    [keys |-> {"mode", "limit", "fetched", "items"} \cup keys
              \cup (IF errs # <<>> THEN {"errors"} ELSE {})
              \cup (IF limited = <<>> THEN {"notice"} ELSE {}),
     error |-> "", mode |-> m, fetched |-> Len(its), items |-> limited,
     errors |-> errs]

KeywordsOutput(its, lim) ==
    ResultOutput("keywords", {"query", "start_time"}, its, lim, <<>>)
AccountsOutput(its, lim, errs) ==
    ResultOutput("accounts", {"accounts"}, its, lim, errs)
FeedsOutput(its, lim, errs) ==
    ResultOutput("feeds", {"feeds"}, its, lim, errs)

-----------------------------------------------------------------------------
(* main()                                                                  *)

\* a variant of the keywords test that does not look at the token
KeywordsSelected_AnyToken(m, t) == m \in {"auto", "keywords"}

\* if mode in ("auto", "keywords") and token:
KeywordsSelected(m, t) == m \in {"auto", "keywords"} /\ t # None

\* if mode == "accounts":
AccountsSelected(m) == m = "accounts"

\* a variant of the program order with the dedup ahead of the time window
NextStage_DedupeFirst(p) ==
    CASE p = "exclude" -> "dedupe"
      [] p = "dedupe" -> "since"
      [] p = "since" -> "sort"
      [] p = "sort" -> "emit"

\* the statements after the fetch loop, in program order
NextStage(p) ==
    CASE p = "exclude" -> "since"
      [] p = "since" -> "dedupe"
      [] p = "dedupe" -> "sort"
      [] p = "sort" -> "emit"

Init ==
    /\ script = "fetch_x_trends"
    /\ draft_only = FALSE
    /\ draft = <<>>
    /\ publish = <<>>
    /\ result = <<>>
    /\ mode \in Modes
    /\ token \in Tokens
    /\ limit \in Limits
    /\ since_hours \in SinceHours
    /\ pc = "start"
    /\ pipeline = "none"
    /\ listed = <<>>
    /\ query = <<>>
    /\ sources = <<>>
    /\ idx = 1
    /\ items = <<>>
    /\ errors = <<>>
    /\ used_labels = <<>>
    /\ exclude_keywords = <<>>
    /\ net = <<>>
    /\ gathered = <<>>
    /\ output = NoOutput
    /\ exit_code = <<>>

args == <<mode, token, limit, since_hours>>

\* a variant of the return that loses the code: the process exits 0
Exit_LosesCode(out, code) ==
    /\ output' = out
    /\ exit_code' = <<0>>
    /\ pc' = "done"

\* return code after _json_out(out)
Exit(out, code) ==
    /\ output' = out
    /\ exit_code' = <<code>>
    /\ pc' = "done"

\* keywords branch: load the keywords, build the query, stop when it is empty
LoadKeywords ==
    /\ pc = "start"
    /\ KeywordsSelected(mode, token)
    /\ \E f \in KeywordFiles :
          LET keywords == _load_keywords(f)
              q == _build_query(keywords)
          IN /\ pipeline' = "keywords"
             /\ listed' = keywords
             /\ query' = q
             /\ IF q = <<>>
                THEN Exit(ErrorOutput("Keyword list is empty", {}),
                          ExitInputEmpty)
                ELSE /\ pc' = "fetch_recent"
                     /\ UNCHANGED <<output, exit_code>>
    /\ UNCHANGED <<wechat, args, sources, idx, items, errors, used_labels,
                   exclude_keywords, net, gathered>>

\* keywords branch: the request, its handlers, _build_items
FetchRecent ==
    /\ pc = "fetch_recent"
    /\ \E o \in ApiOutcomes :
          /\ net' = Append(net, [kind |-> "api", src |-> <<"search">>,
                                 result |-> o])
          /\ CASE o.kind = "HTTPError" ->
                    /\ Exit(ErrorOutput("X API request failed", {"details"}),
                            ExitHttpError)
                    /\ UNCHANGED items
               [] o.kind = "URLError" ->
                    /\ Exit(ErrorOutput("Network error contacting X API", {}),
                            ExitNetworkError)
                    /\ UNCHANGED items
               [] o.kind = "TimeoutError" ->
                    /\ Exit(ErrorOutput("Timed out contacting X API", {}),
                            ExitNetworkError)
                    /\ UNCHANGED items
               [] o.kind = "ValueError" ->
                    /\ exit_code' = <<ExitUncaught>>
                    /\ pc' = "done"
                    /\ UNCHANGED <<output, items>>
               [] o.kind = "errors" ->
                    /\ Exit(ErrorOutput("X API returned errors", {"details"}),
                            ExitApiErrors)
                    /\ UNCHANGED items
               [] o.kind = "payload" ->
                    /\ items' = _build_items(o)
                    /\ pc' = "emit"
                    /\ UNCHANGED <<output, exit_code>>
    /\ UNCHANGED <<wechat, args, pipeline, listed, query, sources, idx, errors,
                   used_labels, exclude_keywords, gathered>>

\* accounts branch: load and normalize the handles, stop when none is left
LoadAccounts ==
    /\ pc = "start"
    /\ ~ KeywordsSelected(mode, token)
    /\ AccountsSelected(mode)
    /\ \E f \in AccountFiles :
          LET accounts == _load_accounts(f)
              normalized == SelectSeq(MapSeq(_normalize_account, accounts),
                                      LAMBDA a : a # <<>>)
          IN /\ pipeline' = "accounts"
             /\ listed' = accounts
             /\ IF accounts = <<>>
                THEN /\ Exit(ErrorOutput("Account list is empty", {}),
                             ExitInputEmpty)
                     /\ UNCHANGED sources
                ELSE IF normalized = <<>>
                THEN /\ Exit(ErrorOutput("no valid handles", {}),
                             ExitInputEmpty)
                     /\ UNCHANGED sources
                ELSE /\ sources' = normalized
                     /\ pc' = "fetch_account"
                     /\ UNCHANGED <<output, exit_code>>
    /\ UNCHANGED <<wechat, args, query, idx, items, errors, used_labels,
                   exclude_keywords, net, gathered>>

\* accounts branch: one turn of the loop over the handles.
\* _fetch_account_feed fetches and parses the primary feed and, when that
\* raises, the mirror; only an exception out of the mirror reaches main()
FetchAccount ==
    /\ pc = "fetch_account"
    /\ LET handle == sources[idx] IN
       \E o \in FetchOutcomes :
          IF o.ok
          THEN /\ net' = Append(net, [kind |-> "account", src |-> handle,
                                      result |-> o])
               /\ items' = items \o _parse_feed(o.body, handle)
               /\ UNCHANGED errors
          ELSE \E m \in FetchOutcomes :
               /\ net' = net \o <<[kind |-> "account", src |-> handle,
                                   result |-> o],
                                  [kind |-> "account_mirror",
                                   src |-> handle, result |-> m]>>
               /\ IF m.ok
                  THEN /\ items' = items \o _parse_feed(m.body, handle)
                       /\ UNCHANGED errors
                  ELSE /\ errors' = Append(errors, [source |-> handle,
                                                    error |-> "exc"])
                       /\ UNCHANGED items
    /\ idx' = idx + 1
    /\ pc' = IF idx = Len(sources) THEN "exclude" ELSE pc
    /\ gathered' = IF idx = Len(sources) THEN items' ELSE gathered
    /\ UNCHANGED <<wechat, args, pipeline, listed, query, sources, used_labels,
                   exclude_keywords, output, exit_code>>

\* a variant of the feeds branch without the test for an empty feed list
LoadFeeds_NoEmptyTest ==
    /\ pc = "start"
    /\ ~ KeywordsSelected(mode, token)
    /\ ~ AccountsSelected(mode)
    /\ \E f \in FeedFiles, max_feeds \in MaxFeedsArgs :
          LET feeds == _load_feeds(f) IN
          /\ pipeline' = "feeds"
          /\ listed' = feeds
          /\ sources' = IF max_feeds > 0 THEN Take(feeds, max_feeds)
                        ELSE feeds
          /\ pc' = IF feeds = <<>> THEN "exclude" ELSE "fetch_feed"
    /\ UNCHANGED <<wechat, args, query, idx, items, errors, used_labels,
                   exclude_keywords, net, gathered, output, exit_code>>

\* feeds branch: load the feeds, stop when there is none, apply --max-feeds
LoadFeeds ==
    /\ pc = "start"
    /\ ~ KeywordsSelected(mode, token)
    /\ ~ AccountsSelected(mode)
    /\ \E f \in FeedFiles, max_feeds \in MaxFeedsArgs :
          LET feeds == _load_feeds(f) IN
          /\ pipeline' = "feeds"
          /\ listed' = feeds
          /\ IF feeds = <<>>
             THEN /\ Exit(ErrorOutput("Feed list is empty", {}),
                          ExitInputEmpty)
                  /\ UNCHANGED sources
             ELSE /\ sources' = IF max_feeds > 0 THEN Take(feeds, max_feeds)
                                ELSE feeds
                  /\ pc' = "fetch_feed"
                  /\ UNCHANGED <<output, exit_code>>
    /\ UNCHANGED <<wechat, args, query, idx, items, errors, used_labels,
                   exclude_keywords, net, gathered>>

\* a variant of the feeds loop that ends at the first feed that raises
FetchFeed_StopsAtFailure ==
    /\ pc = "fetch_feed"
    /\ LET feed == sources[idx]
           label == IF feed.label # <<>> THEN feed.label ELSE feed.url
       IN IF feed.url = <<>>
          THEN /\ UNCHANGED <<net, items, errors, used_labels>>
               /\ pc' = IF idx = Len(sources) THEN "exclude" ELSE pc
          ELSE \E o \in FetchOutcomes :
                  /\ net' = Append(net, [kind |-> "feed", src |-> feed.url,
                                         result |-> o])
                  /\ IF o.ok
                     THEN /\ used_labels' = Append(used_labels, label)
                          /\ items' = items \o _parse_feed(o.body, label)
                          /\ pc' = IF idx = Len(sources) THEN "exclude"
                                   ELSE pc
                          /\ UNCHANGED errors
                     ELSE /\ errors' = Append(errors, [source |-> feed.url,
                                                       error |-> "exc"])
                          /\ pc' = "exclude"
                          /\ UNCHANGED <<items, used_labels>>
    /\ idx' = idx + 1
    /\ gathered' = items'
    /\ UNCHANGED <<wechat, args, pipeline, listed, query, sources,
                   exclude_keywords, output, exit_code>>

\* feeds branch: one turn of the loop over the feeds
FetchFeed ==
    /\ pc = "fetch_feed"
    /\ LET feed == sources[idx]
           label == IF feed.label # <<>> THEN feed.label ELSE feed.url
       IN IF feed.url = <<>>
          THEN UNCHANGED <<net, items, errors, used_labels>>
          ELSE \E o \in FetchOutcomes :
                  /\ net' = Append(net, [kind |-> "feed", src |-> feed.url,
                                         result |-> o])
                  /\ IF o.ok
                     THEN /\ used_labels' = Append(used_labels, label)
                          /\ items' = items \o _parse_feed(o.body, label)
                          /\ UNCHANGED errors
                     ELSE /\ errors' = Append(errors, [source |-> feed.url,
                                                       error |-> "exc"])
                          /\ UNCHANGED <<items, used_labels>>
    /\ idx' = idx + 1
    /\ pc' = IF idx = Len(sources) THEN "exclude" ELSE pc
    /\ gathered' = IF idx = Len(sources) THEN items' ELSE gathered
    /\ UNCHANGED <<wechat, args, pipeline, listed, query, sources,
                   exclude_keywords, output, exit_code>>

\* items = _filter_excluded(items, _load_exclude_keywords(file))
FilterExcluded ==
    /\ pc = "exclude"
    /\ \E f \in ExcludeFiles :
          /\ exclude_keywords' = _load_exclude_keywords(f)
          /\ items' = _filter_excluded(items, exclude_keywords')
    /\ pc' = NextStage("exclude")
    /\ UNCHANGED <<wechat, args, pipeline, listed, query, sources, idx, errors,
                   used_labels, net, gathered, output, exit_code>>

\* items = _filter_since(items, args.since_hours)
FilterSince ==
    /\ pc = "since"
    /\ items' = _filter_since(items, since_hours)
    /\ pc' = NextStage("since")
    /\ UNCHANGED <<wechat, args, pipeline, listed, query, sources, idx, errors,
                   used_labels, exclude_keywords, net, gathered, output,
                   exit_code>>

\* items = _dedupe(items)
Dedupe ==
    /\ pc = "dedupe"
    /\ items' = _dedupe(items)
    /\ pc' = NextStage("dedupe")
    /\ UNCHANGED <<wechat, args, pipeline, listed, query, sources, idx, errors,
                   used_labels, exclude_keywords, net, gathered, output,
                   exit_code>>

\* items.sort(key=..., reverse=True)
Sort ==
    /\ pc = "sort"
    /\ items' = IF pipeline = "accounts" THEN SortAccounts(items)
                ELSE SortFeeds(items)
    /\ pc' = NextStage("sort")
    /\ UNCHANGED <<wechat, args, pipeline, listed, query, sources, idx, errors,
                   used_labels, exclude_keywords, net, gathered, output,
                   exit_code>>

\* limited = items[: max(args.limit, 0)]; build and print the result
Emit ==
    /\ pc = "emit"
    /\ Exit(CASE pipeline = "keywords" -> KeywordsOutput(items, limit)
              [] pipeline = "accounts" -> AccountsOutput(items, limit, errors)
              [] pipeline = "feeds" -> FeedsOutput(items, limit, errors),
            ExitOk)
    /\ UNCHANGED <<wechat, args, pipeline, listed, query, sources, idx, items,
                   errors, used_labels, exclude_keywords, net, gathered>>

Next ==
    \/ LoadKeywords
    \/ FetchRecent
    \/ LoadAccounts
    \/ FetchAccount
    \/ LoadFeeds
    \/ FetchFeed
    \/ FilterExcluded
    \/ FilterSince
    \/ Dedupe
    \/ Sort
    \/ Emit

Spec == Init /\ [][Next]_vars

-----------------------------------------------------------------------------
(* Reading a run                                                           *)

Done == pc = "done"

\* the run printed a result object (not an error object, not a traceback)
Emitted == Done /\ "items" \in output.keys

\* the run printed an error object and no items
ErrorOnly == "error" \in output.keys /\ "items" \notin output.keys

\* the requests a pipeline is allowed to make
KindsOf(m) ==
    CASE m = "keywords" -> {"api"}
      [] m = "accounts" -> {"account", "account_mirror"}
      [] m = "feeds" -> {"feed"}
      [] OTHER -> {}

\* the fetch loop is over
LoopOver ==
    /\ pipeline \in {"accounts", "feeds"}
    /\ pc \in {"exclude", "since", "dedupe", "sort", "emit"}
       \/ (Done /\ sources # <<>>)

\* what the loop was to fetch, in list order
ToFetch ==
    IF pipeline = "accounts" THEN sources
    ELSE LET withUrl == SelectSeq(sources, LAMBDA f : f.url # <<>>)
         IN [i \in 1..Len(withUrl) |-> withUrl[i].url]

\* the label the items of the n-th fetched source carry
LabelOf(n) ==
    IF pipeline = "accounts" THEN sources[n]
    ELSE LET withUrl == SelectSeq(sources, LAMBDA f : f.url # <<>>)
         IN IF withUrl[n].label # <<>> THEN withUrl[n].label
            ELSE withUrl[n].url

RECURSIVE PerSource(_)
\* the request log read as one final outcome per source: a mirror request
\* replaces the failed primary request it follows
PerSource(log) ==
    IF log = <<>> THEN <<>>
    ELSE IF Len(log) >= 2 /\ log[2].kind = "account_mirror"
    THEN <<[src |-> log[1].src, result |-> log[2].result]>>
         \o PerSource(SubSeq(log, 3, Len(log)))
    ELSE <<[src |-> log[1].src, result |-> log[1].result]>>
         \o PerSource(Tail(log))

RECURSIVE Concat(_)
Concat(ss) == IF ss = <<>> THEN <<>> ELSE Head(ss) \o Concat(Tail(ss))

\* the items of s at the positions P accepts, in order
RECURSIVE Picked(_, _, _)
Picked(s, P(_), i) ==
    IF i > Len(s) THEN <<>>
    ELSE (IF P(i) THEN <<s[i]>> ELSE <<>>) \o Picked(s, P, i + 1)

\* s is in descending order of the key Gt compares
Descending(s, Gt(_, _)) ==
    \A i, j \in 1..Len(s) : i < j => ~ Gt(s[j], s[i])

-----------------------------------------------------------------------------
(* C1..C8: one run of main()                                               *)

\* C1: with an explicit --mode m (keywords, accounts or feeds), whatever the
\* token, only the pipeline of m runs: a printed "mode" is m and every
\* request made is one of m's sources.
C1_ExplicitModeRunsItsPipeline ==
    mode \in {"keywords", "accounts", "feeds"} =>
        /\ "mode" \in output.keys => output.mode = mode
        /\ \A i \in 1..Len(net) : net[i].kind \in KindsOf(mode)

\* C2: with --mode auto the keywords pipeline runs exactly when a token is
\* present, a run without token is the feeds pipeline, and the accounts
\* pipeline is never run.
C2_AutoSelectsByToken ==
    (mode = "auto" /\ pc # "start") =>
        /\ pipeline = "keywords" <=> token # None
        /\ token = None => pipeline = "feeds"
        /\ pipeline # "accounts"
        /\ \A i \in 1..Len(net) : net[i].kind \in KindsOf(pipeline)
        /\ "mode" \in output.keys => output.mode = pipeline

C2_Witness ==
    /\ mode = "auto" /\ token = None /\ Done
    /\ output.mode = "feeds" /\ net # <<>>

\* C3: in every pipeline an empty (or missing) input list ends the run at
\* once: no request was made, an error object without items is printed and
\* the exit code is 2.
C3_EmptyInputStops ==
    (pc # "start" /\ listed = <<>>) =>
        /\ Done
        /\ net = <<>>
        /\ ErrorOnly
        /\ exit_code = <<2>>

C3_Witness ==
    /\ Done /\ pipeline = "accounts" /\ listed = <<>> /\ exit_code = <<2>>

\* the failure class a keywords run ended in
FailureClass ==
    IF pipeline # "keywords" \/ ~ Done THEN "none"
    ELSE IF query = <<>> THEN "empty"
    ELSE IF net[1].result.kind = "HTTPError" THEN "http"
    ELSE IF net[1].result.kind \in {"URLError", "TimeoutError"} THEN "network"
    ELSE IF net[1].result.kind = "errors" THEN "api"
    ELSE "none"

\* the exit code main() returns for a failure class
ExitOfClass(c) ==
    CASE c = "empty" -> ExitInputEmpty
      [] c = "http" -> ExitHttpError
      [] c = "network" -> ExitNetworkError
      [] c = "api" -> ExitApiErrors

\* C4 (amended): in keywords mode an HTTP error, a network error (URLError
\* or timeout) and an API-reported error each end the run with an error
\* object without items and exit code 3; an empty keyword list ends it with
\* exit code 2.
C4_KeywordFailures ==
    FailureClass # "none" =>
        /\ ErrorOnly
        /\ exit_code = <<ExitOfClass(FailureClass)>>
        /\ exit_code = IF FailureClass = "empty" THEN <<2>> ELSE <<3>>

\* C4 as claimed: the same, and the classes empty keyword list, HTTP error
\* and network error end with pairwise distinct exit codes.
C4_DistinctExitCodes ==
    FailureClass \in {"empty", "http", "network"} =>
        /\ ErrorOnly
        /\ exit_code = <<ExitOfClass(FailureClass)>>
        /\ \A c \in {"empty", "http", "network"} \ {FailureClass} :
              exit_code # <<ExitOfClass(c)>>

C4_Witness ==
    /\ FailureClass = "network" /\ exit_code = <<3>> /\ Len(net) = 1

\* C5: in accounts and feeds mode every source of the list is fetched, in
\* list order, whichever of them fail; errors has one entry per failed
\* source, in order; the items of the sources that succeeded are what the
\* filters start from; the run exits 0 and prints errors iff one failed.
C5_SourceFailuresAreNotFatal ==
    LoopOver =>
        LET per == PerSource(net) IN
        /\ [i \in 1..Len(per) |-> per[i].src] = ToFetch
        /\ errors = [i \in 1..Len(Picked(per, LAMBDA n : ~ per[n].result.ok, 1))
                       |-> [source |-> Picked(per,
                                LAMBDA n : ~ per[n].result.ok, 1)[i].src,
                            error |-> "exc"]]
        /\ gathered = Concat([i \in 1..Len(per) |->
                         IF per[i].result.ok
                         THEN _parse_feed(per[i].result.body, LabelOf(i))
                         ELSE <<>>])
        /\ Done => /\ exit_code = <<0>>
                   /\ "errors" \in output.keys <=> errors # <<>>
                   /\ output.errors = errors

C5_Witness ==
    /\ Done /\ pipeline = "feeds" /\ Len(net) = 2
    /\ ~ net[1].result.ok /\ net[2].result.ok
    /\ Len(errors) = 1 /\ output.items # <<>>

\* C6: a run that emits a result exits 0, prints no "error", and prints
\* "notice" exactly when the emitted items are empty.
C6_NoticeIffEmpty ==
    Emitted =>
        /\ exit_code = <<0>>
        /\ "error" \notin output.keys
        /\ "notice" \in output.keys <=> output.items = <<>>

C6_Witness ==
    /\ Emitted /\ "notice" \in output.keys /\ items # <<>>

\* the list the accounts / feeds pipeline emits from: exclude filter, then
\* time window, then dedup, then sort
Staged ==
    LET filtered == _dedupe(_filter_since(
                        _filter_excluded(gathered, exclude_keywords),
                        since_hours))
    IN IF pipeline = "accounts" THEN SortAccounts(filtered)
       ELSE SortFeeds(filtered)

\* C7 without its bound on the length
C7_Stages ==
    /\ (Emitted /\ pipeline \in {"accounts", "feeds"}) => items = Staged
    /\ Emitted =>
          /\ output.items = Take(items, Max(limit, 0))
          /\ output.fetched = Len(items)
          /\ CASE pipeline = "keywords" -> Descending(items, KeywordsKeyGt)
               [] pipeline = "accounts" -> Descending(items, AccountsKeyGt)
               [] pipeline = "feeds" -> Descending(items, FeedsKeyGt)

\* C7 (amended): accounts and feeds run exclude filter, time window, dedup,
\* sort, truncate in that order; in every mode the emitted items are the
\* first max(limit, 0) of the sorted list, so at most max(limit, 0) many,
\* and fetched is the length before truncation.
C7_SortedThenTruncated ==
    /\ C7_Stages
    /\ Emitted => Len(output.items) <= Max(limit, 0)

\* C7 as claimed: the same, with the length bounded by limit itself.
C7_LengthWithinLimit ==
    /\ C7_Stages
    /\ Emitted => Len(output.items) <= limit

C7_Witness ==
    /\ Emitted /\ pipeline = "feeds"
    /\ Len(gathered) = 2 /\ Len(items) = 2 /\ limit = 1
    /\ items # gathered

\* C8: no two emitted items have the same de-duplication key.
C8_UniqueKeys ==
    Emitted =>
        \A i, j \in 1..Len(output.items) :
            i < j => DedupeKey(output.items[i]) # DedupeKey(output.items[j])

-----------------------------------------------------------------------------
(* SpecFilters: _parse_date, _filter_since and _dedupe on every list of at *)
(* most MaxLen items.  The list is the parsed body of one feed, or a list  *)
(* of items of any shape.                                                  *)

FilterSinceHours == {0, 24, 25}

\* entries whose dates cover: 23 hours old, 25 hours old behind a +02:00
\* offset, exactly 24 hours old without offset, 23 hours old behind a
\* -03:00 offset, unparseable, absent
F_23h == [title |-> <<"A">>, link |-> <<"u1">>,
          pubDate |-> Iso(Now - 23, <<0>>)]
F_25h == [title |-> <<"B">>, link |-> <<"u1">>,
          pubDate |-> Rfc2822(Now - 23, <<2>>)]
F_24h == [title |-> <<"A">>, link |-> <<>>,
          pubDate |-> Iso(Now - 24, <<>>)]
F_west == [title |-> <<>>, link |-> <<>>,
           pubDate |-> Rfc2822(Now - 26, <<0 - 3>>)]
F_garbage == [title |-> <<"C">>, link |-> <<"u2">>, pubDate |-> GarbageDate]
F_nodate == [title |-> <<"B">>, link |-> <<>>, pubDate |-> EmptyDate]

FilterEntries == {F_23h, F_25h, F_24h, F_west, F_garbage, F_nodate}

\* items of any shape: the key is the url, the id, the text, or missing
RawItem(url, id, text, created_at) ==
    [id |-> id, text |-> text, author |-> <<"s">>, username |-> None,
     url |-> url, created_at |-> created_at, metrics |-> EmptyMetrics,
     engagement_score |-> 0, source |-> <<"s">>]

RawItems ==
    {RawItem(<<>>, <<>>, <<"x">>, <<Now - 1>>),
     RawItem(<<>>, <<"x">>, <<"y">>, <<Now - 30>>),
     RawItem(<<"y">>, <<"x">>, <<"x">>, None),
     RawItem(<<>>, <<>>, <<>>, <<Now - 2>>)}

InitFilters ==
    /\ script = "fetch_x_trends"
    /\ draft_only = FALSE
    /\ draft = <<>>
    /\ publish = <<>>
    /\ result = <<>>
    /\ mode = "feeds"
    /\ token = None
    /\ limit = 0
    /\ since_hours \in FilterSinceHours
    /\ pipeline = "filters"
    /\ listed = <<>>
    /\ query = <<>>
    /\ sources = <<>>
    /\ idx = 1
    /\ errors = <<>>
    /\ used_labels = <<>>
    /\ exclude_keywords = <<>>
    /\ output = NoOutput
    /\ exit_code = <<>>
    /\ \/ /\ pc = "parse"
          /\ \E body \in SeqUpTo(FilterEntries, MaxLen) :
                net = <<[kind |-> "feed", src |-> <<"s">>,
                         result |-> Fetched(body)]>>
          /\ items = <<>>
          /\ gathered = <<>>
       \/ /\ pc = "filters"
          /\ net = <<>>
          /\ items \in SeqUpTo(RawItems, MaxLen)
          /\ gathered = items

frame == <<wechat, args, pipeline, listed, query, sources, idx, errors, used_labels,
           exclude_keywords, net, output, exit_code>>

\* items = _parse_feed(body, label)
ParseBody ==
    /\ pc = "parse"
    /\ items' = _parse_feed(net[1].result.body, net[1].src)
    /\ gathered' = items'
    /\ pc' = "filters"
    /\ UNCHANGED frame

\* items = _filter_since(items, since_hours)
ApplyFilterSince ==
    /\ pc = "filters"
    /\ items' = _filter_since(items, since_hours)
    /\ pc' = "since_done"
    /\ UNCHANGED <<frame, gathered>>

\* items = _dedupe(items)
ApplyDedupe ==
    /\ pc = "filters"
    /\ items' = _dedupe(items)
    /\ pc' = "dedupe_done"
    /\ UNCHANGED <<frame, gathered>>

\* items = _dedupe(items), a second time
ApplyDedupeAgain ==
    /\ pc = "dedupe_done"
    /\ items' = _dedupe(items)
    /\ pc' = "dedupe_twice"
    /\ UNCHANGED <<frame, gathered>>

NextFilters ==
    \/ ParseBody
    \/ ApplyFilterSince
    \/ ApplyDedupe
    \/ ApplyDedupeAgain

SpecFilters == InitFilters /\ [][NextFilters]_vars

-----------------------------------------------------------------------------
(* C9, C10: the filters as functions                                       *)

\* the first position of each distinct non-empty key of L
IsFirstOfKey(L, i) ==
    /\ DedupeKey(L[i]) # <<>>
    /\ \A j \in 1..(i - 1) : DedupeKey(L[j]) # DedupeKey(L[i])

\* C9: _dedupe keeps, in input order, the first item of each distinct
\* non-empty key, and applying it twice gives what applying it once gives.
C9_DedupeFirstOfKeyIdempotent ==
    /\ pc = "dedupe_done" =>
          items = Picked(gathered, LAMBDA i : IsFirstOfKey(gathered, i), 1)
    /\ pc = "dedupe_twice" => items = _dedupe(gathered)

C9_Witness ==
    /\ pc = "dedupe_twice"
    /\ Len(gathered) = 3 /\ Len(items) = 1
    /\ DedupeKey(gathered[1]) = <<"x">> /\ DedupeKey(gathered[2]) = <<>>

\* the date string parses: RFC-2822 or ISO-8601
DateParses(d) == d.fmt \in {"rfc2822", "iso"}

\* the UTC hour a date string names; without an offset it is UTC
UtcHour(d) == IF d.off = <<>> THEN d.local ELSE d.local - d.off[1]

\* the i-th item of the list is within the window
InWindow(i) ==
    IF net # <<>>
    THEN LET d == net[1].result.body[i].pubDate IN
         DateParses(d) /\ UtcHour(d) >= Now - since_hours
    ELSE /\ gathered[i].created_at # None
         /\ gathered[i].created_at[1] >= Now - since_hours

\* C10: the time-window filter returns, in input order, exactly the items
\* whose date is present, parses and is not earlier than now - since_hours.
C10_FilterSinceKeepsWindow ==
    pc = "since_done" => items = Picked(gathered, InWindow, 1)

\* since_hours = 24: the item 23 hours old is kept, the one 25 hours old and
\* the one without a parseable date are dropped
C10_Witness ==
    /\ pc = "since_done" /\ since_hours = 24
    /\ net # <<>> /\ net[1].result.body = <<F_25h, F_23h, F_garbage>>
    /\ items = <<FeedItem(F_23h, <<"s">>)>>

-----------------------------------------------------------------------------
(* C11: the ranking of keywords mode                                       *)

\* the counts an engagement score adds up
CountNames == {"like_count", "retweet_count", "reply_count", "quote_count"}

RECURSIVE SumOver(_, _)
\* the sum of f over the names in S
SumOver(f, S) ==
    IF S = {} THEN 0
    ELSE LET n == CHOOSE n \in S : TRUE IN f[n] + SumOver(f, S \ {n})

\* the counts of the payload's tweet an item was built from, added up, a
\* missing count being 0
ScoreOfCounts(item) ==
    SumOver(item.metrics, CountNames \cap DOMAIN item.metrics)

\* C11: in the keywords result an item of higher engagement score stands
\* before every item of lower score whatever their timestamps, of two items
\* of equal score the one with the more recent created_at stands first, and
\* the score is the sum of the like, retweet, reply and quote counts, a
\* missing count being 0.
C11_KeywordsRanking ==
    (Emitted /\ pipeline = "keywords") =>
        /\ \A i \in 1..Len(items) :
              /\ items[i].engagement_score = ScoreOfCounts(items[i])
              /\ \E n \in 1..Len(net[1].result.data) :
                    /\ items[i].id = net[1].result.data[n].id
                    /\ items[i].metrics = net[1].result.data[n].metrics
        /\ \A i, j \in 1..Len(items) :
              /\ items[i].engagement_score > items[j].engagement_score
                    => i < j
              /\ ( /\ items[i].engagement_score = items[j].engagement_score
                    /\ items[i].created_at # None
                    /\ items[j].created_at # None
                    /\ items[i].created_at[1] > items[j].created_at[1] )
                    => i < j
        /\ output.items = Take(items, Max(limit, 0))

\* score 10 five hours old stands before score 5 one hour old
C11_Witness ==
    /\ Emitted /\ pipeline = "keywords"
    /\ net[1].result.data = <<T_low, T_top>>
    /\ Len(output.items) = 2
    /\ output.items[1].id = <<"1">> /\ output.items[1].engagement_score = 10
    /\ output.items[2].id = <<"2">> /\ output.items[2].engagement_score = 5

-----------------------------------------------------------------------------
(* C12: the ranking of feeds mode                                          *)

\* the source label of an item, lower-cased
LabelLower(item) == Lower(item.source)

HasKarpathy(item) == Contains(<<"karpathy">>, LabelLower(item))
HasOfficial(item) ==
    \E key \in OfficialKeywords : Contains(key, LabelLower(item))
HasArxiv(item) == Contains(<<"arxiv">>, LabelLower(item))
Unweighted(item) == ~ HasKarpathy(item) /\ ~ HasOfficial(item) /\ ~ HasArxiv(item)

\* the tier of an item: the first of "karpathy", official keyword, "arxiv"
\* that its label contains decides
Tier(item) ==
    IF HasKarpathy(item) THEN "karpathy"
    ELSE IF HasOfficial(item) THEN "official"
    ELSE IF HasArxiv(item) THEN "arxiv"
    ELSE "unweighted"

\* karpathy, then official, then unweighted, then arxiv
TierAbove(s, t) ==
    <<s, t>> \in {<<"karpathy", "official">>, <<"karpathy", "unweighted">>,
                  <<"karpathy", "arxiv">>, <<"official", "unweighted">>,
                  <<"official", "arxiv">>, <<"unweighted", "arxiv">>}

MoreRecent(a, b) ==
    /\ a.created_at # None /\ b.created_at # None
    /\ a.created_at[1] > b.created_at[1]

\* C12 (amended): in the feeds result the tier of an item is decided by the
\* first keyword its label contains, tested in the order "karpathy",
\* official keyword, "arxiv"; an item of a higher tier stands before every
\* item of a lower tier (karpathy, official, unweighted, arxiv), and within
\* one tier the more recent item stands first.
C12_FeedsRankingByFirstMatch ==
    (Emitted /\ pipeline = "feeds") =>
        /\ \A i, j \in 1..Len(items) :
              /\ TierAbove(Tier(items[i]), Tier(items[j])) => i < j
              /\ ( Tier(items[i]) = Tier(items[j])
                    /\ MoreRecent(items[i], items[j]) ) => i < j
        /\ output.items = Take(items, Max(limit, 0))

\* C12 as claimed: a label that contains "karpathy" stands before one that
\* matches an official keyword, which stands before an unweighted one, which
\* stands before one that contains "arxiv", for every label, also one that
\* contains more than one of the keywords.
C12_FeedsRankingEveryLabel ==
    (Emitted /\ pipeline = "feeds") =>
        \A i, j \in 1..Len(items) :
            /\ (HasKarpathy(items[i]) /\ HasOfficial(items[j])) => i < j
            /\ (HasOfficial(items[i]) /\ Unweighted(items[j])) => i < j
            /\ (Unweighted(items[i]) /\ HasArxiv(items[j])) => i < j

\* an item whose label holds an official keyword and "arxiv" stands before
\* a more recent item of an unweighted source
C12_Witness ==
    /\ Emitted /\ pipeline = "feeds" /\ Len(output.items) = 2
    /\ output.items[1].source = <<"OpenAI", " ", "ArXiv">>
    /\ output.items[2].source = <<"u">>
    /\ MoreRecent(output.items[2], output.items[1])
    /\ gathered[1].source = <<"u">>

-----------------------------------------------------------------------------
(* The WeChat scripts: publish_wechat_article.py, upload_wechat_material.py *)
(*                                                                         *)
(* net is the log of the transport attempts: one record per urlopen and    *)
(* per curl process, with the request it carried, whether the request was  *)
(* transmitted to the API, and what came back.                             *)

\* a JSON object of the WeChat API: its keys and the fields main() reads
NoResponse == [keys |-> {}, access_token |-> <<>>, media_id |-> <<>>]
ApiError ==
    [keys |-> {"errcode", "errmsg"}, access_token |-> <<>>, media_id |-> <<>>]
TokenOk ==
    [keys |-> {"access_token", "expires_in"}, access_token |-> <<"AT">>,
     media_id |-> <<>>]
DraftOk(m) == [keys |-> {"media_id"}, access_token |-> <<>>, media_id |-> m]
PublishOk ==
    [keys |-> {"errcode", "errmsg", "publish_id"}, access_token |-> <<>>,
     media_id |-> <<>>]
UploadOk ==
    [keys |-> {"media_id", "url"}, access_token |-> <<>>,
     media_id |-> <<"M9">>]

\* the JSON objects an endpoint answers with
Responses(call) ==
    CASE call = "token" -> {TokenOk, ApiError}
      [] call = "draft_add" -> {DraftOk(<<"M1">>), DraftOk(<<"M2">>), ApiError}
      [] call = "publish" -> {PublishOk, ApiError}
      [] call = "add_material" -> {UploadOk, ApiError}

\* what one transport attempt does: the request is answered with a JSON
\* object; the connection fails before the request is transmitted; the
\* request is transmitted and the wait for the answer times out; the request
\* is transmitted and the answer is not JSON
TransportOutcomes(call) ==
    {[outcome |-> "ok", sent |-> TRUE, response |-> r] : r \in Responses(call)}
    \cup {[outcome |-> "connect_fail", sent |-> FALSE, response |-> NoResponse],
          [outcome |-> "timeout", sent |-> TRUE, response |-> NoResponse],
          [outcome |-> "bad_body", sent |-> TRUE, response |-> NoResponse]}

\* the request of a call: the access token of its url, the media_id of its
\* payload
Request(access_token, media_id) ==
    [access_token |-> access_token, media_id |-> media_id]

\* one record of net
Attempt(call, req, via, o) ==
    [kind |-> call, via |-> via, req |-> req, outcome |-> o.outcome,
     sent |-> o.sent, response |-> o.response]

\* what a call gives back to its caller: the attempts it made, and the JSON
\* object it returns unless it raises
Returned(log, o) ==
    [log |-> log, raised |-> o.outcome # "ok", value |-> o.response]

\* publisher, _request_json_curl: one curl process; a non-zero return code
\* raises RuntimeError, an answer that is not JSON raises out of json.loads
_request_json_curl(call, req, c) ==
    Returned(<<Attempt(call, req, "curl", c)>>, c)

\* publisher, _request_json: urlopen, read and json.loads inside one try;
\* except Exception: the curl process
Publisher_request_json(call, req, u, c) ==
    IF u.outcome = "ok"
    THEN Returned(<<Attempt(call, req, "urllib", u)>>, u)
    ELSE LET again == _request_json_curl(call, req, c) IN
         [again EXCEPT !.log = <<Attempt(call, req, "urllib", u)>> \o @]

\* uploader, _request_json: urlopen, read and json.loads, no handler
Uploader_request_json(call, req, u) ==
    Returned(<<Attempt(call, req, "urllib", u)>>, u)

\* uploader, _upload_material: its own urlopen of the multipart POST, read
\* and json.loads, no handler
_upload_material(access_token, u) ==
    Returned(<<Attempt("add_material", Request(access_token, <<>>),
                       "urllib", u)>>, u)

\* exit codes of the publisher's main()
PublisherExitOk == 0
PublisherExitNoHtml == 2
PublisherExitDraftFailed == 3
\* exit codes of the uploader's main()
UploaderExitOk == 0
UploaderExitNoFile == 2

\* what a WeChat script prints: nothing, an error object, the publisher's
\* {"draft": ..., "publish": ...}, or the uploader's result object
NoPrint ==
    [keys |-> {}, error |-> "", draft |-> NoResponse, publish |-> <<>>]
PrintError(msg, more) ==
    [keys |-> {"error"} \cup more, error |-> msg, draft |-> NoResponse,
     publish |-> <<>>]
\* publish is <<>> for null, else <<response>>
PrintDraftPublish(d, p) ==
    [keys |-> {"draft", "publish"}, error |-> "", draft |-> d, publish |-> p]
PrintResult(r) ==
    [keys |-> r.keys, error |-> "", draft |-> NoResponse, publish |-> <<>>]

Scripts == {"publish_wechat_article", "upload_wechat_material"}

\* --html-file / --file: the file exists or not
FileExists == BOOLEAN

InitWeChat ==
    /\ script \in Scripts
    /\ draft_only \in (IF script = "publish_wechat_article" THEN BOOLEAN
                       ELSE {FALSE})
    /\ draft = NoResponse
    /\ publish = NoResponse
    /\ result = NoResponse
    /\ mode = "none"
    /\ token = None
    /\ limit = 0
    /\ since_hours = 0
    /\ pc = "start"
    /\ pipeline = "none"
    /\ listed = <<>>
    /\ query = <<>>
    /\ sources = <<>>
    /\ idx = 1
    /\ items = <<>>
    /\ errors = <<>>
    /\ used_labels = <<>>
    /\ exclude_keywords = <<>>
    /\ net = <<>>
    /\ gathered = <<>>
    /\ output = NoPrint
    /\ exit_code = <<>>

\* what no WeChat action changes
fetcher == <<mode, limit, since_hours, pipeline, listed, query, sources, idx, items, errors,
             used_labels, exclude_keywords, gathered>>

\* an exception nothing catches: a traceback, nothing printed, exit code 1
Uncaught ==
    /\ exit_code' = <<ExitUncaught>>
    /\ pc' = "done"
    /\ UNCHANGED output

\* publisher main(): open(args.html_file).read()
ReadHtml ==
    /\ script = "publish_wechat_article"
    /\ pc = "start"
    /\ \E exists \in FileExists :
          IF exists
          THEN /\ pc' = "get_access_token"
               /\ UNCHANGED <<output, exit_code>>
          ELSE Exit(PrintError("html file not found", {}),
                    PublisherExitNoHtml)
    /\ UNCHANGED <<script, draft_only, draft, publish, result, token, net,
                   fetcher>>

\* publisher main(): token = _get_access_token(app_id, app_secret)
GetAccessToken ==
    /\ script = "publish_wechat_article"
    /\ pc = "get_access_token"
    /\ \E u, c \in TransportOutcomes("token") :
          LET data == Publisher_request_json("token", Request(<<>>, <<>>),
                                             u, c)
          IN /\ net' = net \o data.log
             /\ IF data.raised \/ "access_token" \notin data.value.keys
                THEN Uncaught /\ UNCHANGED token
                ELSE /\ token' = data.value.access_token
                     /\ pc' = "draft_add"
                     /\ UNCHANGED <<output, exit_code>>
    /\ UNCHANGED <<script, draft_only, draft, publish, result, fetcher>>

\* _draft_add: one POST of the article to draft/add
_draft_add(access_token, u, c) ==
    Publisher_request_json("draft_add", Request(access_token, <<>>), u, c)

\* _publish: one POST of the media_id to freepublish/submit
_publish(access_token, media_id, u, c) ==
    Publisher_request_json("publish", Request(access_token, media_id), u, c)

\* a variant of the step after draft/add that does not test args.draft_only
DraftAdd_IgnoresDraftOnly ==
    /\ script = "publish_wechat_article"
    /\ pc = "draft_add"
    /\ \E u, c \in TransportOutcomes("draft_add") :
          LET data == _draft_add(token, u, c) IN
          /\ net' = net \o data.log
          /\ IF data.raised
             THEN Uncaught /\ UNCHANGED draft
             ELSE /\ draft' = data.value
                  /\ IF "media_id" \notin data.value.keys
                     THEN Exit(PrintError("draft_add failed", {"details"}),
                               PublisherExitDraftFailed)
                     ELSE /\ pc' = "publish"
                          /\ UNCHANGED <<output, exit_code>>
    /\ UNCHANGED <<script, draft_only, publish, result, token, fetcher>>

\* publisher main(): draft = _draft_add(...), the test for media_id, and the
\* return of --draft-only
DraftAdd ==
    /\ script = "publish_wechat_article"
    /\ pc = "draft_add"
    /\ \E u, c \in TransportOutcomes("draft_add") :
          LET data == _draft_add(token, u, c) IN
          /\ net' = net \o data.log
          /\ IF data.raised
             THEN Uncaught /\ UNCHANGED draft
             ELSE /\ draft' = data.value
                  /\ IF "media_id" \notin data.value.keys
                     THEN Exit(PrintError("draft_add failed", {"details"}),
                               PublisherExitDraftFailed)
                     ELSE IF draft_only
                     THEN Exit(PrintDraftPublish(data.value, <<>>),
                               PublisherExitOk)
                     ELSE /\ pc' = "publish"
                          /\ UNCHANGED <<output, exit_code>>
    /\ UNCHANGED <<script, draft_only, publish, result, token, fetcher>>

\* publisher main(): publish = _publish(token, draft["media_id"]), print
Publish ==
    /\ script = "publish_wechat_article"
    /\ pc = "publish"
    /\ \E u, c \in TransportOutcomes("publish") :
          LET data == _publish(token, draft.media_id, u, c) IN
          /\ net' = net \o data.log
          /\ IF data.raised
             THEN Uncaught /\ UNCHANGED publish
             ELSE /\ publish' = data.value
                  /\ Exit(PrintDraftPublish(draft, <<data.value>>),
                          PublisherExitOk)
    /\ UNCHANGED <<script, draft_only, draft, result, token, fetcher>>

\* uploader main(): os.path.isfile(args.file)
CheckFile ==
    /\ script = "upload_wechat_material"
    /\ pc = "start"
    /\ \E exists \in FileExists :
          IF exists
          THEN /\ pc' = "get_access_token"
               /\ UNCHANGED <<output, exit_code>>
          ELSE Exit(PrintError("file not found", {}), UploaderExitNoFile)
    /\ UNCHANGED <<script, draft_only, draft, publish, result, token, net,
                   fetcher>>

\* uploader main(): token = _get_access_token(app_id, app_secret)
UploaderGetAccessToken ==
    /\ script = "upload_wechat_material"
    /\ pc = "get_access_token"
    /\ \E u \in TransportOutcomes("token") :
          LET data == Uploader_request_json("token", Request(<<>>, <<>>), u)
          IN /\ net' = net \o data.log
             /\ IF data.raised \/ "access_token" \notin data.value.keys
                THEN Uncaught /\ UNCHANGED token
                ELSE /\ token' = data.value.access_token
                     /\ pc' = "upload_material"
                     /\ UNCHANGED <<output, exit_code>>
    /\ UNCHANGED <<script, draft_only, draft, publish, result, fetcher>>

\* uploader main(): result = _upload_material(token, type, file), print,
\* return 0
UploadMaterial ==
    /\ script = "upload_wechat_material"
    /\ pc = "upload_material"
    /\ \E u \in TransportOutcomes("add_material") :
          LET data == _upload_material(token, u)
          IN /\ net' = net \o data.log
             /\ IF data.raised
                THEN Uncaught /\ UNCHANGED result
                ELSE /\ result' = data.value
                     /\ Exit(PrintResult(data.value), UploaderExitOk)
    /\ UNCHANGED <<script, draft_only, draft, publish, token, fetcher>>

NextWeChat ==
    \/ ReadHtml
    \/ GetAccessToken
    \/ DraftAdd
    \/ Publish
    \/ CheckFile
    \/ UploaderGetAccessToken
    \/ UploadMaterial

SpecWeChat == InitWeChat /\ [][NextWeChat]_vars

-----------------------------------------------------------------------------
(* C13..C16: one run of a WeChat script                                    *)

\* the attempts of net that carried a call of the kind
AttemptsOf(call) == {i \in 1..Len(net) : net[i].kind = call}

\* C13: every network call whose primary transport (urlopen) fails is
\* attempted once more through curl, an error leaves the call only when that
\* attempt fails too, and no call is attempted more than twice.
C13_EveryCallFallsBack ==
    /\ \A i \in 1..Len(net) :
          (net[i].via = "urllib" /\ net[i].outcome # "ok") =>
              /\ i < Len(net)
              /\ net[i + 1].via = "curl"
              /\ net[i + 1].kind = net[i].kind
              /\ net[i + 1].req = net[i].req
    /\ \A call \in {"token", "draft_add", "publish", "add_material"} :
          Cardinality(AttemptsOf(call)) <= 2

\* a call of the kind was answered with a JSON object without the key
Refused(call, key) ==
    \E i \in AttemptsOf(call) :
        net[i].outcome = "ok" /\ key \notin net[i].response.keys

\* C14: in both WeChat scripts a token response without access_token, and a
\* draft/add or add_material response without media_id, end the run with an
\* error object printed and a non-zero exit code.
C14_MissingFieldsAreFatal ==
    ( /\ Done
      /\ \/ Refused("token", "access_token")
         \/ Refused("draft_add", "media_id")
         \/ Refused("add_material", "media_id") )
    => /\ "error" \in output.keys
       /\ exit_code # <<0>>

\* token exchange, then draft/add, then publish
Rank(call) ==
    CASE call = "token" -> 1
      [] call = "draft_add" -> 2
      [] call = "publish" -> 3

\* C15: in a run of the publisher the calls are made in the order token
\* exchange, draft/add, publish; draft/add is called only with a token that
\* the token exchange returned; publish is called only when draft/add
\* returned a media_id and --draft-only is not set, and with that media_id;
\* with --draft-only publish is never called and a printed publish is null.
C15_TokenDraftPublishOrder ==
    script = "publish_wechat_article" =>
        /\ \A i, j \in 1..Len(net) :
              i < j => Rank(net[i].kind) <= Rank(net[j].kind)
        /\ \A i \in AttemptsOf("draft_add") :
              /\ net[i].req.access_token # <<>>
              /\ \E k \in AttemptsOf("token") :
                    /\ k < i /\ net[k].outcome = "ok"
                    /\ net[k].response.access_token = net[i].req.access_token
        /\ \A i \in AttemptsOf("publish") :
              /\ ~ draft_only
              /\ "media_id" \in draft.keys
              /\ net[i].req.media_id = draft.media_id
              /\ net[i].req.access_token = token
              /\ \E k \in AttemptsOf("draft_add") :
                    /\ k < i /\ net[k].outcome = "ok"
                    /\ net[k].response = draft
        /\ draft_only =>
              /\ AttemptsOf("publish") = {}
              /\ "publish" \in output.keys => output.publish = <<>>
        /\ (~ draft_only /\ "publish" \in output.keys) =>
              /\ output.publish = <<publish>>
              /\ AttemptsOf("publish") # {}
        /\ "draft" \in output.keys => output.draft = draft

\* a run that published the draft M2 it had created
C15_Witness ==
    /\ script = "publish_wechat_article" /\ Done /\ ~ draft_only
    /\ exit_code = <<0>>
    /\ output.draft = DraftOk(<<"M2">>)
    /\ \E i \in AttemptsOf("publish") :
          net[i].outcome = "ok" /\ net[i].req.media_id = <<"M2">>

\* C16: in one run of the publisher the draft/add POST and the publish POST
\* are each transmitted to the API at most once, whatever the primary
\* transport does.
C16_PostsTransmittedOnce ==
    script = "publish_wechat_article" =>
        \A call \in {"draft_add", "publish"} :
            Cardinality({i \in AttemptsOf(call) : net[i].sent}) <= 1

====
